---- MODULE Spec2Model ----
(***************************************************************************)
(* Model of the ID-anchored document edit pipeline of                      *)
(* app/features/document_editing/services/document_pipeline.py:            *)
(* add_ids_to_nodes, flatten_nodes_to_list, dump_flattened_nodes and       *)
(* _parse_edited_content.  Strings are sequences of one-character strings, *)
(* so that strip, startswith, replace, split and the ID regular expression *)
(* are computed character by character, as Python computes them.           *)
(***************************************************************************)
EXTENDS Integers, Sequences, FiniteSets, TLC

VARIABLES
    jsonnode,        \* the document tree handed to add_ids_to_nodes
    pending,         \* paths of the nodes add_ids_to_nodes has still to visit
    existing_ids,    \* the existing_ids set of add_ids_to_nodes
    original_nodes,  \* the flat list given to _parse_edited_content
    edited_content,  \* the response text given to _parse_edited_content
    paragraphs,      \* the response lines the loop has consumed so far
    path_updates,    \* the list _parse_edited_content returns
    processed_ids,   \* its set of ids already processed
    origin,          \* for each update, the number of the line that produced it
    pc,              \* position of the call
    message,             \* the user instruction given to process_jsonnode
    selected_nodes_ids,  \* its selected_nodes_ids argument
    dumpstr,             \* its dump of the whole flat list
    selected_paragraphs, \* its dump of the selected flat nodes
    result,              \* what process_jsonnode returns, or the exception it raises
    reflattened,         \* the list a second call of flatten_nodes_to_list returns
    editor_content,      \* the editor content of the chat request
    selected_text,       \* the selected text of the chat request
    service_result,      \* what DocumentPipelineService.process_jsonnode returns
    router_events        \* the events the chat router has sent for the request

\* the variables only process_jsonnode and the repeated flatten use
\* the variables only the service and the router use
service_vars == <<editor_content, selected_text, service_result, router_events>>

process_vars ==
    <<message, selected_nodes_ids, dumpstr, selected_paragraphs, result, reflattened,
      service_vars>>

\* the variables only _parse_edited_content writes
parse_vars == <<paragraphs, path_updates, processed_ids, origin>>

vars == <<jsonnode, pending, existing_ids, original_nodes, edited_content,
          paragraphs, path_updates, processed_ids, origin, pc, process_vars>>

(***************************************************************************)
(* Bounds of the model.                                                    *)
(***************************************************************************)
MaxLines == 2
MaxNodes == 2
MaxRand == 3
MaxUuid == 1

(***************************************************************************)
(* Characters and strings.                                                 *)
(***************************************************************************)
Whitespace == {" ", "\t", "\r", "\n"}

Alnum ==
    {"a","b","c","d","e","f","g","h","i","j","k","l","m","n","o","p","q","r",
     "s","t","u","v","w","x","y","z",
     "A","B","C","D","E","F","G","H","I","J","K","L","M","N","O","P","Q","R",
     "S","T","U","V","W","X","Y","Z",
     "0","1","2","3","4","5","6","7","8","9"}

HexDigits == <<"0","1","2","3","4","5","6","7","8","9","a","b","c","d","e","f">>

\* f"{n:04x}"
Hex4(n) ==
    << HexDigits[((n \div 4096) % 16) + 1], HexDigits[((n \div 256) % 16) + 1],
       HexDigits[((n \div 16) % 16) + 1], HexDigits[(n % 16) + 1] >>

\* f"{random.randint(0, 0xFFFF):04x}", the range cut down to 0..MaxRand
HexIds == { Hex4(n) : n \in 0..MaxRand }

\* str(uuid.uuid4())[:4], cut down to the first MaxUuid + 1 values
UuidIds == { Hex4(n) : n \in 0..MaxUuid }

RECURSIVE LStrip(_)
LStrip(s) ==
    IF s = <<>> THEN s
    ELSE IF Head(s) \in Whitespace THEN LStrip(Tail(s)) ELSE s

RECURSIVE RStrip(_)
RStrip(s) ==
    IF s = <<>> THEN s
    ELSE IF s[Len(s)] \in Whitespace THEN RStrip(SubSeq(s, 1, Len(s) - 1)) ELSE s

\* str.strip()
Strip(s) == RStrip(LStrip(s))

\* str.startswith(p)
StartsWith(s, p) == Len(s) >= Len(p) /\ SubSeq(s, 1, Len(p)) = p

\* s with the characters first..last removed
RemoveSpan(s, first, last) == SubSeq(s, 1, first - 1) \o SubSeq(s, last + 1, Len(s))

\* str.find(p) + 1, 0 when p does not occur
RECURSIVE FindFrom(_, _, _)
FindFrom(s, p, i) ==
    IF i + Len(p) - 1 > Len(s) THEN 0
    ELSE IF SubSeq(s, i, i + Len(p) - 1) = p THEN i
    ELSE FindFrom(s, p, i + 1)

Find(s, p) == FindFrom(s, p, 1)

\* str.replace(old, '', 1)
RemoveAt(s, i, n) == IF i = 0 THEN s ELSE RemoveSpan(s, i, i + n - 1)

ReplaceFirst(s, old) == RemoveAt(s, Find(s, old), Len(old))

\* str.split('\n')
RECURSIVE SplitLines(_)
SplitLines(s) ==
    IF Find(s, <<"\n">>) = 0 THEN <<s>>
    ELSE <<SubSeq(s, 1, Find(s, <<"\n">>) - 1)>>
         \o SplitLines(SubSeq(s, Find(s, <<"\n">>) + 1, Len(s)))

\* '\n'.join(lines)
RECURSIVE JoinLines(_)
JoinLines(lines) ==
    IF lines = <<>> THEN <<>>
    ELSE IF Len(lines) = 1 THEN lines[1]
    ELSE lines[1] \o <<"\n">> \o JoinLines(Tail(lines))

\* first index j >= i with j > Len(s) or s[j] not in S
RECURSIVE SkipWhile(_, _, _)
SkipWhile(s, i, S) ==
    IF i <= Len(s) /\ s[i] \in S THEN SkipWhile(s, i + 1, S) ELSE i

NoMatch == [found |-> FALSE, first |-> 0, last |-> 0, group |-> <<>>]

\* the rest of id_pattern from position j1 on: \s*([a-zA-Z0-9]+)\]
IdMatchGroup(s, i, j2, j3) ==
    IF j3 > j2 /\ j3 <= Len(s) /\ s[j3] = "]"
    THEN [found |-> TRUE, first |-> i, last |-> j3, group |-> SubSeq(s, j2, j3 - 1)]
    ELSE NoMatch

IdMatchSpace(s, i, j2) == IdMatchGroup(s, i, j2, SkipWhile(s, j2, Alnum))

IdMatchColon(s, i, j0) ==
    IdMatchSpace(s, i, SkipWhile(s, IF j0 <= Len(s) /\ s[j0] = ":" THEN j0 + 1 ELSE j0,
                                 Whitespace))

\* a pattern that lost its leading \[ID
IdMatchAtUnanchored(s, i) == IdMatchColon(s, i, i)

\* id_pattern = r'\[ID:?\s*([a-zA-Z0-9]+)\]' matched at position i
IdMatchAt(s, i) ==
    IF i + 2 <= Len(s) /\ s[i] = "[" /\ s[i + 1] = "I" /\ s[i + 2] = "D"
    THEN IdMatchColon(s, i, i + 3)
    ELSE NoMatch

\* the least element of a non-empty set of positions
Least(S) == CHOOSE i \in S : \A j \in S : i <= j

\* re.search(id_pattern, s): the leftmost match
IdSearchIn(s, hits) == IF hits = {} THEN NoMatch ELSE IdMatchAt(s, Least(hits))

IdSearch(s) == IdSearchIn(s, { i \in 1..Len(s) : IdMatchAt(s, i).found })

NewTag == <<"[","N","E","W","]">>
IdTagStart == <<"[","I","D",":">>
EmptyMarker == <<"(","e","m","p","t","y",")">>
StrayTagLen == 15

(***************************************************************************)
(* _parse_edited_content: the handling of one response line.               *)
(***************************************************************************)
\* if final_text_content == '(empty)': final_text_content = ''
NormalizeEmptyKept(t) == t

\* lines 478-479
NormalizeEmpty(t) == IF t = EmptyMarker THEN <<>> ELSE t

\* lines 462-466: the line without its [NEW] marker
AfterNewTag(stripped) ==
    IF StartsWith(stripped, NewTag) THEN Strip(ReplaceFirst(stripped, NewTag))
    ELSE stripped

\* lines 472-476: the content without its first ID tag
StripIdTag(content, id_match) ==
    IF id_match.found THEN Strip(RemoveSpan(content, id_match.first, id_match.last))
    ELSE content

\* lines 468-479
ParseContent(blank, is_new_node, content) ==
    [blank |-> blank,
     is_new |-> is_new_node,
     tag |-> IdSearch(content).group,
     final |-> NormalizeEmpty(StripIdTag(content, IdSearch(content)))]

ParseStripped(stripped) ==
    ParseContent(stripped = <<>>, StartsWith(stripped, NewTag), AfterNewTag(stripped))

\* lines 456-479: what the loop body extracts from paragraph_text.  A tag of
\* <<>> stands for parsed_node_id_from_tag = None.
ParseLine(paragraph_text) == ParseStripped(Strip(paragraph_text))

\* original_nodes_by_id = {node['id']: node for node in original_nodes}
OriginalNodesById(nodes) ==
    [x \in { nodes[i].id : i \in DOMAIN nodes } |->
        nodes[CHOOSE i \in DOMAIN nodes :
                /\ nodes[i].id = x
                /\ \A j \in DOMAIN nodes : nodes[j].id = x => j <= i]]

\* a list insert at the front instead of append
EmitFront(list, x) == <<x>> \o list

\* path_updates.append(x)
Emit(list, x) == Append(list, x)

\* final_text_content.startswith('[ID:') and len(final_text_content) < 15
LooksLikeStrayTag(t) == StartsWith(t, IdTagStart) /\ Len(t) < StrayTagLen

\* the branch of the loop body that a parsed line takes
Branch(p, processed) ==
    IF p.blank THEN "blank"
    ELSE IF p.is_new
         THEN IF p.tag # <<>> /\ p.tag \in processed THEN "new_dup" ELSE "new"
         ELSE IF p.tag = <<>> THEN "no_id"
              ELSE IF p.tag \in processed THEN "processed"
              ELSE IF LooksLikeStrayTag(p.final) THEN "stray"
              ELSE "existing"

\* the update a [NEW] line appends; synth is str(uuid.uuid4())[:4]
NewUpdate(p, synth) ==
    [path |-> "new", content |-> p.final, id |-> IF p.tag # <<>> THEN p.tag ELSE synth]

\* a [NEW] line that is dropped when nothing follows the marker
StepNewSkipsEmpty(st, p, n, synth) ==
    IF p.final = <<>> THEN st
    ELSE [st EXCEPT !.updates = Emit(@, NewUpdate(p, synth)),
                    !.origin = Emit(@, n),
                    !.processed = IF p.tag # <<>> THEN @ \cup {p.tag} ELSE @]

\* lines 482-497: a line marked [NEW] whose tag, if any, is not yet processed
StepNew(st, p, n, synth) ==
    [st EXCEPT !.updates = Emit(@, NewUpdate(p, synth)),
               !.origin = Emit(@, n),
               !.processed = IF p.tag # <<>> THEN @ \cup {p.tag} ELSE @]

\* a comparison that reports every tagged line as changed
StepCompareAlways(st, p, n, original_text) ==
    [st EXCEPT !.updates = Emit(@, [path |-> "None", content |-> p.final, id |-> p.tag]),
               !.origin = Emit(@, n)]

\* lines 514-524: the update for a node found in the original list
StepCompare(st, p, n, original_text) ==
    IF p.final # original_text
    THEN [st EXCEPT !.updates = Emit(@, [path |-> "None", content |-> p.final,
                                         id |-> p.tag]),
                    !.origin = Emit(@, n)]
    ELSE st

\* processed_ids.add(parsed_node_id_from_tag)
MarkProcessed(st, p) == [st EXCEPT !.processed = @ \cup {p.tag}]

\* a lookup without the membership test: a KeyError on an unknown id
StepExistingUnguarded(st, p, n, by_id) ==
    IF p.tag \in DOMAIN by_id
    THEN StepCompare(MarkProcessed(st, p), p, n, by_id[p.tag].text)
    ELSE [MarkProcessed(st, p) EXCEPT !.raised = TRUE]

\* an id marked as processed only when its line produced an update
StepExistingMarksOnChange(st, p, n, by_id) ==
    IF p.tag \in DOMAIN by_id /\ p.final # by_id[p.tag].text
    THEN StepCompare(MarkProcessed(st, p), p, n, by_id[p.tag].text)
    ELSE st

\* lines 511-524: a line with an ID tag that passed the guards
StepExisting(st, p, n, by_id) ==
    IF p.tag \in DOMAIN by_id
    THEN StepCompare(MarkProcessed(st, p), p, n, by_id[p.tag].text)
    ELSE MarkProcessed(st, p)

StepParsed(st, p, n, synth, by_id, b) ==
    IF b = "new" THEN StepNew(st, p, n, synth)
    ELSE IF b = "existing" THEN StepExisting(st, p, n, by_id)
    ELSE st

StepBranch(st, p, n, synth, by_id) ==
    StepParsed(st, p, n, synth, by_id, Branch(p, st.processed))

\* one iteration of `for paragraph_text in paragraphs`, on line number n
StepLine(st, paragraph_text, n, synth, by_id) ==
    StepBranch(st, ParseLine(paragraph_text), n, synth, by_id)

\* the locals of _parse_edited_content before the loop (lines 451-452)
StartState == [updates |-> <<>>, origin |-> <<>>, processed |-> {}, raised |-> FALSE]

\* the whole loop over lines[n..], synth[i] being the uuid drawn at line i
RECURSIVE RunLines(_, _, _, _, _)
RunLines(st, lines, n, synth, by_id) ==
    IF n > Len(lines) \/ st.raised THEN st
    ELSE RunLines(StepLine(st, lines[n], n, synth[n], by_id), lines, n + 1, synth, by_id)

\* _parse_edited_content(edited_content, original_nodes)
ParseEditedContent(edited, nodes, synth) ==
    RunLines(StartState, SplitLines(edited), 1, synth, OriginalNodesById(nodes))

(***************************************************************************)
(* Document trees.  A dict is a record whose DOMAIN is its set of keys, a  *)
(* list is a sequence, a string is a sequence of characters and None is    *)
(* the one-element sequence <<"None">>, which is no string.                *)
(***************************************************************************)
None == <<"None">>

\* Python truthiness of an id value: None and '' are falsy
Truthy(v) == v # None /\ v # <<>>

\* the keys whose values are containers, in the order the dict holds them
ContainerKeys == <<"attrs", "children", "content", "marks">>

\* a path is a sequence of <<key, index>> steps; index 0 enters a dict value
RECURSIVE GetNode(_, _)
GetNode(node, path) ==
    IF path = <<>> THEN node
    ELSE IF path[1][2] = 0 THEN GetNode(node[path[1][1]], Tail(path))
    ELSE GetNode(node[path[1][1]][path[1][2]], Tail(path))

\* node['id'] = new_id
WithId(node, new_id) ==
    [k \in DOMAIN node \cup {"id"} |-> IF k = "id" THEN new_id ELSE node[k]]

RECURSIVE SetId(_, _, _)
SetId(node, path, new_id) ==
    IF path = <<>> THEN WithId(node, new_id)
    ELSE IF path[1][2] = 0
         THEN [node EXCEPT ![path[1][1]] = SetId(@, Tail(path), new_id)]
         ELSE [node EXCEPT ![path[1][1]][path[1][2]] = SetId(@, Tail(path), new_id)]

\* the recursive calls add_ids_to_nodes makes on the values of one key
PathsUnder(node, path, key) ==
    IF key \notin DOMAIN node THEN <<>>
    ELSE IF key = "attrs" THEN << path \o << <<key, 0>> >> >>
    ELSE [i \in 1..Len(node[key]) |-> path \o << <<key, i>> >>]

\* lines 113-119: the recursive calls on the values of a dict, in key order
RECURSIVE ChildPaths(_, _, _)
ChildPaths(node, path, k) ==
    IF k > Len(ContainerKeys) THEN <<>>
    ELSE PathsUnder(node, path, ContainerKeys[k]) \o ChildPaths(node, path, k + 1)

NeedsIdAlways(node) == "type" \in DOMAIN node

\* line 106: 'type' in node and not node.get('id')
NeedsId(node) == "type" \in DOMAIN node /\ ~("id" \in DOMAIN node /\ Truthy(node.id))

\* lines 83-86: the ids _generate_random_hex_id can return
FreeIds(existing) == HexIds \ existing

(***************************************************************************)
(* flatten_nodes_to_list                                                   *)
(***************************************************************************)
\* lines 146-150
NodeId(node) ==
    IF "id" \in DOMAIN node THEN node.id
    ELSE IF "attrs" \in DOMAIN node /\ "id" \in DOMAIN node.attrs THEN node.attrs.id
    ELSE None

\* 'text' in item and item['text'].strip()
HasVisibleText(node) == "text" \in DOMAIN node /\ Strip(node.text) # <<>>

\* lines 163-171
TextItems(content) == { i \in DOMAIN content : HasVisibleText(content[i]) }
NestedContentItems(content) == { i \in DOMAIN content : "content" \in DOMAIN content[i] }

\* lines 153-176
IsLeafNode(node) ==
    IF HasVisibleText(node) THEN TRUE
    ELSE IF "content" \in DOMAIN node
         THEN TextItems(node.content) # {} /\ NestedContentItems(node.content) = {}
         ELSE FALSE

\* ' '.join(text_parts)
RECURSIVE JoinSpace(_)
JoinSpace(parts) ==
    IF parts = <<>> THEN <<>>
    ELSE IF Len(parts) = 1 THEN parts[1]
    ELSE parts[1] \o <<" ">> \o JoinSpace(Tail(parts))

\* lines 222-245: _extract_text_from_content
RECURSIVE ExtractTextFromContent(_)
RECURSIVE TextParts(_, _)
TextParts(content, i) ==
    IF i > Len(content) THEN <<>>
    ELSE (IF "text" \in DOMAIN content[i] THEN <<content[i].text>>
          ELSE IF "content" \in DOMAIN content[i]
                  /\ ExtractTextFromContent(content[i].content) # <<>>
               THEN <<ExtractTextFromContent(content[i].content)>>
               ELSE <<>>)
         \o TextParts(content, i + 1)

ExtractTextFromContent(content) == JoinSpace(TextParts(content, 1))

\* lines 181-193: the entry appended for a leaf node
LeafEntry(node) ==
    IF "text" \in DOMAIN node THEN << [id |-> NodeId(node), text |-> node.text] >>
    ELSE IF "content" \in DOMAIN node /\ ExtractTextFromContent(node.content) # <<>>
         THEN << [id |-> NodeId(node), text |-> ExtractTextFromContent(node.content)] >>
         ELSE <<>>

\* lines 141-220
RECURSIVE FlattenNodesToList(_)
RECURSIVE FlattenItems(_, _)
FlattenItems(list, i) ==
    IF i > Len(list) THEN <<>>
    ELSE FlattenNodesToList(list[i]) \o FlattenItems(list, i + 1)

FlattenKey(node, key) ==
    IF key \in DOMAIN node THEN FlattenItems(node[key], 1) ELSE <<>>

FlattenContentFirst(node) ==
    IF IsLeafNode(node) /\ NodeId(node) # None THEN LeafEntry(node)
    ELSE FlattenKey(node, "content") \o FlattenKey(node, "children")
         \o FlattenKey(node, "marks")

FlattenNodesToList(node) ==
    IF IsLeafNode(node) /\ NodeId(node) # None THEN LeafEntry(node)
    ELSE FlattenKey(node, "children") \o FlattenKey(node, "content")
         \o FlattenKey(node, "marks")

(***************************************************************************)
(* dump_flattened_nodes                                                    *)
(***************************************************************************)
\* f"[ID:{node_id}] {text}"
DumpLine(node) == IdTagStart \o node.id \o <<"]", " ">> \o node.text

\* lines 416-424
DumpFlattenedNodes(flattened) ==
    JoinLines([i \in DOMAIN flattened |-> DumpLine(flattened[i])])

(***************************************************************************)
(* Inputs.                                                                 *)
(***************************************************************************)
Hi == <<"H","i">>
Yo == <<"Y","o">>
SP == <<" ">>
Id0 == Hex4(0)
Id1 == Hex4(1)
DocIds == {Id0, Id1}

IdTag(x) == IdTagStart \o x \o <<"]">>
DeleteTag(x) == <<"[","D","E","L","E","T","E",":">> \o x \o <<"]">>
ErrorTag(x) ==
    <<"[","E","R","R","O","R",":"," ","I","n","v","a","l","i","d"," ","I","D"," ">>
    \o x \o <<"]">>

\* the response lines the model draws from
LinePool ==
    { IdTagStart \o SP \o x \o <<"]">> : x \in DocIds }          \* [ID: x]
    \cup { IdTag(x) \o SP \o Yo : x \in DocIds }                 \* [ID:x] Yo
    \cup { IdTag(Id0) \o SP \o Hi,                               \* [ID:x] Hi
           IdTag(Id0) \o SP \o EmptyMarker,                      \* [ID:x] (empty)
           NewTag \o SP \o Yo,                                   \* [NEW] Yo
           NewTag \o SP \o EmptyMarker,                          \* [NEW] (empty)
           NewTag \o SP \o IdTag(Id0) \o SP \o Yo,               \* [NEW] [ID:x] Yo
           DeleteTag(Id0),                                       \* [DELETE:x]
           ErrorTag(Id0),                                        \* [ERROR: Invalid ID x]
           IdTag(Id0) \o SP \o IdTag(Id1),                       \* [ID:x] [ID:y]
           <<" ", " ">> }                                        \* a blank line

FlatNodes == [id : DocIds, text : {Hi, <<>>}]

\* the document trees the model draws from: a doc of up to MaxNodes paragraphs,
\* each holding one text node; a paragraph comes without id, with a null id,
\* with the id 0000, with the id 0000 under attrs, or identified down to its
\* text node
HiSpace == <<"H","i"," ">>
TextNode(t) == [type |-> "text", text |-> t]
Id2 == Hex4(2)
Id3 == Hex4(3)
DocId == Hex4(15)

IdText(x, t) == [type |-> "text", id |-> x, text |-> t]
ParagraphShapes ==
    UNION { { [type |-> "paragraph", content |-> <<TextNode(t)>>],
              [type |-> "paragraph", id |-> None, content |-> <<TextNode(t)>>],
              [type |-> "paragraph", id |-> Id0, content |-> <<TextNode(t)>>],
              [type |-> "paragraph", attrs |-> [id |-> Id0],
               content |-> <<TextNode(t)>>] } : t \in {Hi, HiSpace} }
    \cup { [type |-> "paragraph", id |-> Id0, content |-> <<IdText(Id1, Hi)>>] }
ParagraphLists == UNION { [1..n -> ParagraphShapes] : n \in 0..MaxNodes }
\* the documents that arrive identified down to their text nodes
IdentifiedLists ==
    UNION { [1..n -> {[type |-> "paragraph", id |-> Id0, content |-> <<IdText(Id1, Hi)>>]}] :
              n \in 0..MaxNodes }
Trees ==
    { [type |-> "doc", content |-> ps] : ps \in ParagraphLists }
    \cup { [type |-> "doc", id |-> DocId, content |-> ps] : ps \in IdentifiedLists }
OriginalLists == UNION { [1..n -> FlatNodes] : n \in 0..MaxNodes }

(***************************************************************************)
(* The call _parse_edited_content(edited_content, original_nodes), one     *)
(* response line per step.                                                 *)
(***************************************************************************)
Init ==
    /\ jsonnode = <<>>
    /\ pending = <<>>
    /\ existing_ids = {}
    /\ original_nodes \in OriginalLists
    /\ edited_content = <<>>
    /\ paragraphs = <<>>
    /\ path_updates = <<>>
    /\ processed_ids = {}
    /\ origin = <<>>
    /\ pc = "call"
    /\ message = <<>>
    /\ selected_nodes_ids = <<>>
    /\ dumpstr = <<>>
    /\ selected_paragraphs = <<>>
    /\ result = <<>>
    /\ reflattened = <<>>
    /\ editor_content = <<>>
    /\ selected_text = <<>>
    /\ service_result = <<>>
    /\ router_events = <<>>

\* lines 438-452
ParseStart ==
    /\ pc = "call"
    /\ pc' = "loop"
    /\ paragraphs' = <<>>
    /\ path_updates' = <<>>
    /\ processed_ids' = {}
    /\ origin' = <<>>
    /\ UNCHANGED <<jsonnode, pending, existing_ids, original_nodes, edited_content>>
    /\ UNCHANGED process_vars

\* the state of the loop
LoopState ==
    [updates |-> path_updates, origin |-> origin, processed |-> processed_ids,
     raised |-> FALSE]

SetLoopState(st, next_pc) ==
    /\ path_updates' = st.updates
    /\ origin' = st.origin
    /\ processed_ids' = st.processed
    /\ pc' = IF st.raised THEN "raised" ELSE next_pc

\* the loop body on paragraph_text, the next response line
Consume(paragraph_text, synth) ==
    /\ SetLoopState(StepLine(LoopState, paragraph_text, Len(paragraphs) + 1, synth,
                             OriginalNodesById(original_nodes)), "loop")
    /\ paragraphs' = Append(paragraphs, paragraph_text)
    /\ edited_content' = IF paragraphs = <<>> THEN paragraph_text
                         ELSE edited_content \o <<"\n">> \o paragraph_text
    /\ UNCHANGED <<jsonnode, pending, existing_ids, original_nodes>>
    /\ UNCHANGED process_vars

\* the branch the loop body takes on paragraph_text in the current state
BranchOf(paragraph_text) == Branch(ParseLine(paragraph_text), processed_ids)

InLoop == pc = "loop" /\ Len(paragraphs) < MaxLines

\* lines 457-458
SkipBlank ==
    /\ InLoop
    /\ \E paragraph_text \in LinePool :
         BranchOf(paragraph_text) = "blank" /\ Consume(paragraph_text, <<>>)

\* lines 482-497, the uuid being drawn when the line carries no tag
NewNode ==
    /\ InLoop
    /\ \E paragraph_text \in LinePool :
         /\ BranchOf(paragraph_text) = "new"
         /\ \E synth \in (IF ParseLine(paragraph_text).tag = <<>> THEN UuidIds
                          ELSE {<<>>}) :
              Consume(paragraph_text, synth)

\* lines 487-488
NewDuplicate ==
    /\ InLoop
    /\ \E paragraph_text \in LinePool :
         BranchOf(paragraph_text) = "new_dup" /\ Consume(paragraph_text, <<>>)

\* lines 501-502
NoIdTag ==
    /\ InLoop
    /\ \E paragraph_text \in LinePool :
         BranchOf(paragraph_text) = "no_id" /\ Consume(paragraph_text, <<>>)

\* lines 504-505
AlreadyProcessed ==
    /\ InLoop
    /\ \E paragraph_text \in LinePool :
         BranchOf(paragraph_text) = "processed" /\ Consume(paragraph_text, <<>>)

\* lines 508-509
StrayTag ==
    /\ InLoop
    /\ \E paragraph_text \in LinePool :
         BranchOf(paragraph_text) = "stray" /\ Consume(paragraph_text, <<>>)

\* lines 511-524
ExistingNode ==
    /\ InLoop
    /\ \E paragraph_text \in LinePool :
         BranchOf(paragraph_text) = "existing" /\ Consume(paragraph_text, <<>>)

\* return path_updates
ParseReturn ==
    /\ pc = "loop"
    /\ Len(paragraphs) >= 1
    /\ pc' = "done"
    /\ UNCHANGED <<jsonnode, pending, existing_ids, original_nodes, edited_content,
                   paragraphs, path_updates, processed_ids, origin>>
    /\ UNCHANGED process_vars

Next ==
    \/ ParseStart
    \/ SkipBlank
    \/ NewNode
    \/ NewDuplicate
    \/ NoIdTag
    \/ AlreadyProcessed
    \/ StrayTag
    \/ ExistingNode
    \/ ParseReturn

Spec == Init /\ [][Next]_vars

(***************************************************************************)
(* add_ids_to_nodes on a tree, then flatten_nodes_to_list on the result,   *)
(* dump_flattened_nodes on the flat list, and _parse_edited_content on a   *)
(* response that echoes the dump.                                          *)
(***************************************************************************)
InitRoundTrip ==
    /\ jsonnode \in Trees
    /\ pending = << <<>> >>
    /\ existing_ids = {}
    /\ original_nodes = <<>>
    /\ edited_content = <<>>
    /\ paragraphs = <<>>
    /\ path_updates = <<>>
    /\ processed_ids = {}
    /\ origin = <<>>
    /\ pc = "assign"
    /\ message = <<>>
    /\ selected_nodes_ids = <<>>
    /\ dumpstr = <<>>
    /\ selected_paragraphs = <<>>
    /\ result = <<>>
    /\ reflattened = <<>>
    /\ editor_content = <<>>
    /\ selected_text = <<>>
    /\ service_result = <<>>
    /\ router_events = <<>>

\* the dict the next call of add_ids_to_nodes is made on
Visited == GetNode(jsonnode, Head(pending))

InAssign == pc = "assign" /\ pending # <<>>

\* lines 104-114 on a dict that has a type and no truthy id
AssignNewId ==
    /\ InAssign
    /\ NeedsId(Visited)
    /\ \E new_id \in FreeIds(existing_ids) :
         /\ jsonnode' = SetId(jsonnode, Head(pending), new_id)
         /\ existing_ids' = existing_ids \cup {new_id}
    /\ pending' = ChildPaths(Visited, Head(pending), 1) \o Tail(pending)
    /\ UNCHANGED <<original_nodes, edited_content, paragraphs, path_updates,
                   processed_ids, origin, pc>>
    /\ UNCHANGED process_vars

\* lines 104-114 on a dict without type or with a truthy id
AssignKeep ==
    /\ InAssign
    /\ ~NeedsId(Visited)
    /\ pending' = ChildPaths(Visited, Head(pending), 1) \o Tail(pending)
    /\ UNCHANGED <<jsonnode, existing_ids, original_nodes, edited_content, paragraphs,
                   path_updates, processed_ids, origin, pc>>
    /\ UNCHANGED process_vars

\* lines 83-86 when every id is in existing_ids: the loop draws again, for ever
RedrawForever ==
    /\ InAssign
    /\ NeedsId(Visited)
    /\ FreeIds(existing_ids) = {}
    /\ UNCHANGED vars

\* line 121, of the outermost call
AssignReturn ==
    /\ pc = "assign"
    /\ pending = <<>>
    /\ pc' = "flatten"
    /\ UNCHANGED <<jsonnode, pending, existing_ids, original_nodes, edited_content,
                   paragraphs, path_updates, processed_ids, origin>>
    /\ UNCHANGED process_vars

\* flatten_nodes_to_list(jsonnode)
Flatten ==
    /\ pc = "flatten"
    /\ original_nodes' = FlattenNodesToList(jsonnode)
    /\ pc' = "dump"
    /\ UNCHANGED <<jsonnode, pending, existing_ids, edited_content, paragraphs,
                   path_updates, processed_ids, origin>>
    /\ UNCHANGED process_vars

\* dump_flattened_nodes(flattened), handed back as the response
Dump ==
    /\ pc = "dump"
    /\ edited_content' = DumpFlattenedNodes(original_nodes)
    /\ pc' = "echo"
    /\ UNCHANGED <<jsonnode, pending, existing_ids, original_nodes, paragraphs,
                   path_updates, processed_ids, origin>>
    /\ UNCHANGED process_vars

\* _parse_edited_content(edited_content, original_nodes), the whole call
ParseAll ==
    /\ pc = "echo"
    /\ paragraphs' = SplitLines(edited_content)
    /\ \E synth \in [1..Len(SplitLines(edited_content)) -> UuidIds] :
         SetLoopState(ParseEditedContent(edited_content, original_nodes, synth), "done")
    /\ UNCHANGED <<jsonnode, pending, existing_ids, original_nodes, edited_content>>
    /\ UNCHANGED process_vars

NextRoundTrip ==
    \/ AssignNewId
    \/ AssignKeep
    \/ RedrawForever
    \/ AssignReturn
    \/ Flatten
    \/ Dump
    \/ ParseAll

SpecRoundTrip == InitRoundTrip /\ [][NextRoundTrip]_vars

(***************************************************************************)
(* process_jsonnode(jsonnode, message, selected_text, selected_nodes_ids), *)
(* one step per statement; the call of generate_text is the one place      *)
(* where the outcome is not decided by the arguments.                      *)
(***************************************************************************)
Messages == {Hi, Yo}

\* the selected_nodes_ids the callers pass: a list of ids, or nothing at all
SelectedIds == {None, <<>>, <<Id0>>}

\* the lines the responses of generate_text are made of
ProcessLines ==
    { IdTag(Id0) \o SP \o Yo,                 \* [ID:0000] Yo
      IdTagStart \o SP \o Id0 \o <<"]">>,     \* [ID: 0000]
      NewTag \o SP \o Yo,                     \* [NEW] Yo
      DeleteTag(Id0) }                        \* [DELETE:0000]

\* what generate_text can return: nothing, the dump itself, or some lines
Responses(dump) ==
    {<<>>, dump}
    \cup { JoinLines(ls) : ls \in UNION { [1..n -> ProcessLines] : n \in 1..MaxLines } }

\* the documents process_jsonnode is given
ProcessTrees == { tree \in Trees : Len(tree.content) < MaxNodes }

InitProcess ==
    /\ jsonnode \in ProcessTrees
    /\ message \in Messages
    /\ selected_nodes_ids \in SelectedIds
    /\ pending = <<>>
    /\ existing_ids = {}
    /\ original_nodes = <<>>
    /\ dumpstr = <<>>
    /\ selected_paragraphs = <<>>
    /\ edited_content = None
    /\ paragraphs = <<>>
    /\ path_updates = <<>>
    /\ processed_ids = {}
    /\ origin = <<>>
    /\ result = <<>>
    /\ reflattened = <<>>
    /\ editor_content = <<>>
    /\ selected_text = <<>>
    /\ service_result = <<>>
    /\ router_events = <<>>
    /\ pc = "p_flatten"

ProcessFlattenIdentifiesInPlace ==
    /\ pc = "p_flatten"
    /\ jsonnode' = WithId(jsonnode, Id1)
    /\ original_nodes' = FlattenNodesToList(jsonnode')
    /\ pc' = "p_dump"
    /\ UNCHANGED <<pending, existing_ids, edited_content, parse_vars, message,
                   selected_nodes_ids, dumpstr, selected_paragraphs, result, reflattened>>
    /\ UNCHANGED service_vars

\* line 534: the tree is flattened as it arrives
ProcessFlatten ==
    /\ pc = "p_flatten"
    /\ original_nodes' = FlattenNodesToList(jsonnode)
    /\ pc' = "p_dump"
    /\ UNCHANGED <<jsonnode, pending, existing_ids, edited_content, parse_vars, message,
                   selected_nodes_ids, dumpstr, selected_paragraphs, result, reflattened>>
    /\ UNCHANGED service_vars

\* line 535
ProcessDump ==
    /\ pc = "p_dump"
    /\ dumpstr' = DumpFlattenedNodes(original_nodes)
    /\ pc' = "p_select"
    /\ UNCHANGED <<jsonnode, pending, existing_ids, original_nodes, edited_content,
                   parse_vars, message, selected_nodes_ids, selected_paragraphs, result,
                   reflattened>>
    /\ UNCHANGED service_vars

\* line 538: node['id'] in selected_nodes_ids
InIds(x, ids) == \E i \in DOMAIN ids : ids[i] = x

\* line 538: `in` is evaluated once per flat node, and raises TypeError on None
SelectRaises(flattened, ids) == ids = None /\ flattened # <<>>

\* line 538: flattened_selected
RECURSIVE FlattenedSelected(_, _)
FlattenedSelected(flattened, ids) ==
    IF flattened = <<>> THEN <<>>
    ELSE (IF InIds(Head(flattened).id, ids) THEN <<Head(flattened)>> ELSE <<>>)
         \o FlattenedSelected(Tail(flattened), ids)

\* lines 538-539
ProcessSelect ==
    /\ pc = "p_select"
    /\ ~SelectRaises(original_nodes, selected_nodes_ids)
    /\ selected_paragraphs' =
         DumpFlattenedNodes(FlattenedSelected(original_nodes, selected_nodes_ids))
    /\ pc' = "p_generate"
    /\ UNCHANGED <<jsonnode, pending, existing_ids, original_nodes, edited_content,
                   parse_vars, message, selected_nodes_ids, dumpstr, result, reflattened>>
    /\ UNCHANGED service_vars

\* line 538 raising: the statement stands before the try of line 546
ProcessSelectRaises ==
    /\ pc = "p_select"
    /\ SelectRaises(original_nodes, selected_nodes_ids)
    /\ result' = [raised |-> "TypeError"]
    /\ pc' = "raised"
    /\ UNCHANGED <<jsonnode, pending, existing_ids, original_nodes, edited_content,
                   parse_vars, message, selected_nodes_ids, dumpstr, selected_paragraphs,
                   reflattened>>
    /\ UNCHANGED service_vars

\* lines 622-626
ErrorResult(dump, e, msg) == [original |-> dump, error |-> e, message |-> msg]

\* lines 619-626: the handler of the try block
ExceptResult(e) == ErrorResult(dumpstr, e, message)

\* lines 590-596: generate_text returns
GenerateText ==
    /\ pc = "p_generate"
    /\ \E out \in Responses(dumpstr) : edited_content' = out
    /\ pc' = "p_check"
    /\ UNCHANGED <<jsonnode, pending, existing_ids, original_nodes, parse_vars, message,
                   selected_nodes_ids, dumpstr, selected_paragraphs, result, reflattened>>
    /\ UNCHANGED service_vars

\* lines 590-596 and 619-626: generate_text raises an Exception
GenerateRaises ==
    /\ pc = "p_generate"
    /\ result' = ExceptResult("generate_text failed")
    /\ pc' = "returned"
    /\ UNCHANGED <<jsonnode, pending, existing_ids, original_nodes, edited_content,
                   parse_vars, message, selected_nodes_ids, dumpstr, selected_paragraphs,
                   reflattened>>
    /\ UNCHANGED service_vars

\* lines 590-596: the await is cancelled; asyncio.CancelledError derives from
\* BaseException, which the `except Exception` of line 619 does not catch
GenerateCancelled ==
    /\ pc = "p_generate"
    /\ result' = [raised |-> "CancelledError"]
    /\ pc' = "raised"
    /\ UNCHANGED <<jsonnode, pending, existing_ids, original_nodes, edited_content,
                   parse_vars, message, selected_nodes_ids, dumpstr, selected_paragraphs,
                   reflattened>>
    /\ UNCHANGED service_vars

IsEmptyOutputNever(edited) == FALSE

\* line 599
IsEmptyOutput(edited) == Len(edited) = 0

\* line 600: logging is a local name of process_jsonnode, bound only by the
\* import of line 620, so the call raises before the return of lines 602-605
UnboundLogging ==
    "cannot access local variable 'logging' where it is not associated with a value"

\* lines 599-600 and 619-626
ProcessEmpty ==
    /\ pc = "p_check"
    /\ IsEmptyOutput(edited_content)
    /\ result' = ExceptResult(UnboundLogging)
    /\ pc' = "returned"
    /\ UNCHANGED <<jsonnode, pending, existing_ids, original_nodes, edited_content,
                   parse_vars, message, selected_nodes_ids, dumpstr, selected_paragraphs,
                   reflattened>>
    /\ UNCHANGED service_vars

\* lines 608-617, or the handler when _parse_edited_content raises
DataResult(dump, edited, msg, st) ==
    IF st.raised THEN ErrorResult(dump, "KeyError", msg)
    ELSE [original |-> dump, edited |-> edited, message |-> msg,
          path_updates |-> st.updates]

ParsedResult(st) == DataResult(dumpstr, edited_content, message, st)

ProcessReturn(st) ==
    /\ path_updates' = st.updates
    /\ origin' = st.origin
    /\ processed_ids' = st.processed
    /\ result' = ParsedResult(st)
    /\ pc' = "returned"

\* lines 606-617
ProcessParse ==
    /\ pc = "p_check"
    /\ ~IsEmptyOutput(edited_content)
    /\ paragraphs' = SplitLines(edited_content)
    /\ \E synth \in [1..Len(SplitLines(edited_content)) -> UuidIds] :
         ProcessReturn(ParseEditedContent(edited_content, original_nodes, synth))
    /\ UNCHANGED <<jsonnode, pending, existing_ids, original_nodes, edited_content,
                   message, selected_nodes_ids, dumpstr, selected_paragraphs, reflattened>>
    /\ UNCHANGED service_vars

(***************************************************************************)
(* DocumentPipelineService.process_jsonnode around the call, and the       *)
(* modify_existing branch of the chat router around the service.           *)
(***************************************************************************)
\* what the pipeline call leaves alone once it has ended
call_vars ==
    <<jsonnode, pending, existing_ids, original_nodes, edited_content, parse_vars,
      message, selected_nodes_ids, dumpstr, selected_paragraphs, result, reflattened,
      editor_content, selected_text>>

\* document_pipeline_service.py lines 174-179: the pipeline call returned
ServiceReturn ==
    /\ pc = "returned"
    /\ service_result' = [success |-> TRUE, result |-> result,
                          message |-> "Successfully processed JSON node"]
    /\ pc' = "served"
    /\ UNCHANGED <<call_vars, router_events>>

\* document_pipeline_service.py lines 180-185: the pipeline call raised an
\* Exception; a CancelledError passes through
ServiceCatches ==
    /\ pc = "raised"
    /\ result.raised # "CancelledError"
    /\ service_result' = [success |-> FALSE, error |-> result.raised,
                          message |-> "Error processing JSON node"]
    /\ pc' = "served"
    /\ UNCHANGED <<call_vars, router_events>>

\* router.py line 323: result['result'].get('path_updates', [])
JsonUpdate(res) == IF "path_updates" \in DOMAIN res THEN res.path_updates ELSE <<>>

\* router.py lines 314-372: the replace-text action is sent
RouterSendsAction ==
    /\ pc = "served"
    /\ service_result.success
    /\ router_events' = Append(router_events,
                               [type |-> "action", action |-> "replace-text",
                                content |-> JsonUpdate(service_result.result)])
    /\ pc' = "routed"
    /\ UNCHANGED <<call_vars, service_result>>

\* router.py lines 373-384: the error is reported and the request falls back
\* to the standard processing
RouterFallsBack ==
    /\ pc = "served"
    /\ ~service_result.success
    /\ router_events' = Append(router_events, [type |-> "thinking"])
    /\ pc' = "routed"
    /\ UNCHANGED <<call_vars, service_result>>

NextProcess ==
    \/ ProcessFlatten
    \/ ProcessDump
    \/ ProcessSelect
    \/ ProcessSelectRaises
    \/ GenerateText
    \/ GenerateRaises
    \/ GenerateCancelled
    \/ ProcessEmpty
    \/ ProcessParse
    \/ ServiceReturn
    \/ ServiceCatches
    \/ RouterSendsAction
    \/ RouterFallsBack

SpecProcess == InitProcess /\ [][NextProcess]_vars

(***************************************************************************)
(* flatten_nodes_to_list on the trees an editor can send, called twice on  *)
(* the same tree.                                                          *)
(***************************************************************************)
Para(x, items) == [type |-> "paragraph", id |-> x, content |-> items]

\* the nodes a document of the model is made of
BlockShapes ==
    { \* a paragraph of one text run, and one of two
      Para(Id0, <<IdText(Id1, Hi)>>),
      Para(Id0, <<IdText(Id1, Hi), IdText(Id2, Yo)>>),
      \* a paragraph identified under attrs, its text run without id
      [type |-> "paragraph", attrs |-> [id |-> Id1], content |-> <<TextNode(Yo)>>],
      \* a paragraph and its text run without id
      [type |-> "paragraph", content |-> <<TextNode(Hi)>>],
      \* a paragraph whose node-level id is null, identified under attrs
      [type |-> "paragraph", id |-> None, attrs |-> [id |-> Id1], content |-> <<TextNode(Hi)>>],
      \* a section with a `children` array and a `content` array
      [type |-> "section", id |-> Id2,
       children |-> <<Para(Id3, <<TextNode(Yo)>>)>>,
       content |-> <<Para(Id1, <<TextNode(Hi)>>)>>],
      \* a paragraph with a blank `text` of its own and a text run
      [type |-> "paragraph", id |-> Id0, text |-> SP, content |-> <<IdText(Id1, Hi)>>],
      \* a paragraph with a text run and an inline node with `content`
      Para(Id0, <<IdText(Id1, Hi), [type |-> "link", id |-> Id2, content |-> <<IdText(Id3, Yo)>>]>>),
      \* a paragraph with a text run and an inline node with `children`
      Para(Id0, <<IdText(Id1, Hi), [type |-> "list", id |-> Id2, children |-> <<IdText(Id3, Yo)>>]>>),
      \* a text run with a mark, and a blank text run
      [type |-> "text", id |-> Id3, text |-> Yo, marks |-> <<[type |-> "bold", id |-> Id2]>>],
      IdText(Id1, SP) }

BlockLists(n) == UNION { [1..k -> BlockShapes] : k \in 0..n }

FlattenTrees ==
    { [type |-> "doc", id |-> DocId, children |-> cs, content |-> ps] :
        cs \in BlockLists(MaxNodes - 1), ps \in BlockLists(MaxNodes) }

InitFlatten ==
    /\ jsonnode \in FlattenTrees
    /\ pending = <<>>
    /\ existing_ids = {}
    /\ original_nodes = <<>>
    /\ edited_content = <<>>
    /\ paragraphs = <<>>
    /\ path_updates = <<>>
    /\ processed_ids = {}
    /\ origin = <<>>
    /\ message = <<>>
    /\ selected_nodes_ids = <<>>
    /\ dumpstr = <<>>
    /\ selected_paragraphs = <<>>
    /\ result = <<>>
    /\ reflattened = <<>>
    /\ editor_content = <<>>
    /\ selected_text = <<>>
    /\ service_result = <<>>
    /\ router_events = <<>>
    /\ pc = "f_first"

ResultAtEntryShared(left_by_earlier_call) == left_by_earlier_call

\* lines 138-139: the default of `result` is None, so a call that is given no
\* list starts from a new empty one, whatever an earlier call has appended
ResultAtEntry(left_by_earlier_call) == <<>>

\* flatten_nodes_to_list(jsonnode)
FlattenFirst ==
    /\ pc = "f_first"
    /\ original_nodes' = ResultAtEntry(<<>>) \o FlattenNodesToList(jsonnode)
    /\ pc' = "f_second"
    /\ UNCHANGED <<jsonnode, pending, existing_ids, edited_content, parse_vars,
                   message, selected_nodes_ids, dumpstr, selected_paragraphs, result,
                   reflattened>>
    /\ UNCHANGED service_vars

\* flatten_nodes_to_list(jsonnode), once more
FlattenAgain ==
    /\ pc = "f_second"
    /\ reflattened' = ResultAtEntry(original_nodes) \o FlattenNodesToList(jsonnode)
    /\ pc' = "f_done"
    /\ UNCHANGED <<jsonnode, pending, existing_ids, original_nodes, edited_content,
                   parse_vars, message, selected_nodes_ids, dumpstr, selected_paragraphs,
                   result>>
    /\ UNCHANGED service_vars

NextFlatten ==
    \/ FlattenFirst
    \/ FlattenAgain

SpecFlatten == InitFlatten /\ [][NextFlatten]_vars

(***************************************************************************)
(* dump_flattened_nodes on a flat list, and _parse_edited_content on a     *)
(* response that echoes the dump.                                          *)
(***************************************************************************)
\* the flat lists given to dump_flattened_nodes: texts can be empty
RenderNodes == [id : DocIds, text : {Hi, Yo, <<>>}]
RenderLists == UNION { [1..n -> RenderNodes] : n \in 0..MaxNodes }

InitRender ==
    /\ jsonnode = <<>>
    /\ pending = <<>>
    /\ existing_ids = {}
    /\ original_nodes \in RenderLists
    /\ edited_content = <<>>
    /\ paragraphs = <<>>
    /\ path_updates = <<>>
    /\ processed_ids = {}
    /\ origin = <<>>
    /\ message = <<>>
    /\ selected_nodes_ids = <<>>
    /\ dumpstr = <<>>
    /\ selected_paragraphs = <<>>
    /\ result = <<>>
    /\ reflattened = <<>>
    /\ editor_content = <<>>
    /\ selected_text = <<>>
    /\ service_result = <<>>
    /\ router_events = <<>>
    /\ pc = "dump"

NextRender ==
    \/ Dump
    \/ ParseAll

SpecRender == InitRender /\ [][NextRender]_vars

(***************************************************************************)
(* Two calls of process_jsonnode on the one DocumentPipeline of the        *)
(* service singleton, as tasks of one event loop: a call runs from its     *)
(* start to the await of generate_text, and from the await to its return,  *)
(* without the other call running in between.  Each variable holds the     *)
(* value of the two calls.                                                 *)
(***************************************************************************)
Calls == {1, 2}

CallTrees ==
    { [type |-> "doc", content |-> <<Para(Id0, <<TextNode(Hi)>>)>>],
      [type |-> "doc", content |-> <<Para(Id0, <<TextNode(Yo)>>), Para(Id1, <<TextNode(Hi)>>)>>] }

CallSelections == {<<>>, <<Id0>>}

\* what generate_text returns to a call
CallResponses == {<<>>, IdTag(Id0) \o SP \o Yo, IdTag(Id1) \o SP \o Yo}

InitInterleaved ==
    /\ jsonnode \in [Calls -> CallTrees]
    /\ message \in [Calls -> Messages]
    /\ selected_nodes_ids \in [Calls -> CallSelections]
    /\ original_nodes = [c \in Calls |-> <<>>]
    /\ dumpstr = [c \in Calls |-> <<>>]
    /\ selected_paragraphs = [c \in Calls |-> <<>>]
    /\ edited_content = [c \in Calls |-> None]
    /\ result = [c \in Calls |-> <<>>]
    /\ pc = [c \in Calls |-> "start"]
    /\ pending = <<>>
    /\ existing_ids = {}
    /\ paragraphs = <<>>
    /\ path_updates = <<>>
    /\ processed_ids = {}
    /\ origin = <<>>
    /\ reflattened = <<>>
    /\ editor_content = <<>>
    /\ selected_text = <<>>
    /\ service_result = <<>>
    /\ router_events = <<>>

\* what the two calls never write
shared_vars ==
    <<jsonnode, message, selected_nodes_ids, pending, existing_ids, parse_vars,
      reflattened, service_vars>>

CallStartShared(c) ==
    /\ pc[c] = "start"
    /\ original_nodes' = [k \in Calls |-> FlattenNodesToList(jsonnode[c])]
    /\ dumpstr' = [dumpstr EXCEPT ![c] = DumpFlattenedNodes(FlattenNodesToList(jsonnode[c]))]
    /\ selected_paragraphs' = selected_paragraphs
    /\ pc' = [pc EXCEPT ![c] = "awaiting"]
    /\ UNCHANGED <<edited_content, result, shared_vars>>

\* lines 534-590: the call runs to the await; flattened, dumpstr and
\* selected_paragraphs are local names of the call
CallStart(c) ==
    /\ pc[c] = "start"
    /\ original_nodes' = [original_nodes EXCEPT ![c] = FlattenNodesToList(jsonnode[c])]
    /\ dumpstr' = [dumpstr EXCEPT ![c] = DumpFlattenedNodes(FlattenNodesToList(jsonnode[c]))]
    /\ selected_paragraphs' =
         [selected_paragraphs EXCEPT ![c] =
            DumpFlattenedNodes(FlattenedSelected(FlattenNodesToList(jsonnode[c]),
                                                 selected_nodes_ids[c]))]
    /\ pc' = [pc EXCEPT ![c] = "awaiting"]
    /\ UNCHANGED <<edited_content, result, shared_vars>>

\* the uuid prefixes drawn for the lines of a response without [NEW] line
NoSynth(edited) == [k \in 1..Len(SplitLines(edited)) |-> Id0]

\* lines 599-626 on the response `edited`
ResumeResult(flattened, dump, msg, edited) ==
    IF IsEmptyOutput(edited) THEN ErrorResult(dump, UnboundLogging, msg)
    ELSE DataResult(dump, edited, msg,
                    ParseEditedContent(edited, flattened, NoSynth(edited)))

\* lines 590-617: generate_text returns to the call, which runs to its return
CallResume(c) ==
    /\ pc[c] = "awaiting"
    /\ \E out \in CallResponses :
         /\ edited_content' = [edited_content EXCEPT ![c] = out]
         /\ result' = [result EXCEPT ![c] =
                         ResumeResult(original_nodes[c], dumpstr[c], message[c], out)]
    /\ pc' = [pc EXCEPT ![c] = "returned"]
    /\ UNCHANGED <<original_nodes, dumpstr, selected_paragraphs, shared_vars>>

\* lines 590-596 and 619-626: generate_text raises in the call
CallResumeRaises(c) ==
    /\ pc[c] = "awaiting"
    /\ result' = [result EXCEPT ![c] =
                    ErrorResult(dumpstr[c], "generate_text failed", message[c])]
    /\ pc' = [pc EXCEPT ![c] = "returned"]
    /\ UNCHANGED <<original_nodes, dumpstr, selected_paragraphs, edited_content,
                   shared_vars>>

NextInterleaved ==
    \/ \E c \in Calls : CallStart(c)
    \/ \E c \in Calls : CallResume(c)
    \/ \E c \in Calls : CallResumeRaises(c)

SpecInterleaved == InitInterleaved /\ [][NextInterleaved]_vars

(***************************************************************************)
(* DocumentPipelineService.should_use_pipeline: a call on a message, the   *)
(* editor content and the selected text, the last two None or strings.     *)
(***************************************************************************)
UpperLetters == <<"A", "B", "C", "D", "E", "F", "G", "H", "I", "J", "K", "L", "M", "N", "O", "P", "Q", "R", "S", "T", "U", "V", "W", "X", "Y", "Z">>

LowerLetters == <<"a", "b", "c", "d", "e", "f", "g", "h", "i", "j", "k", "l", "m", "n", "o", "p", "q", "r", "s", "t", "u", "v", "w", "x", "y", "z">>

LowerChar(c) ==
    IF \E k \in DOMAIN UpperLetters : UpperLetters[k] = c
    THEN LowerLetters[CHOOSE k \in DOMAIN UpperLetters : UpperLetters[k] = c]
    ELSE c

\* a message matched as it is written
LowerKept(s) == s

\* str.lower()
Lower(s) == [k \in DOMAIN s |-> LowerChar(s[k])]

\* lines 100-105
edit_indicators ==
    { <<"e", "d", "i", "t">>,
      <<"c", "h", "a", "n", "g", "e">>,
      <<"m", "o", "d", "i", "f", "y">>,
      <<"u", "p", "d", "a", "t", "e">>,
      <<"r", "e", "v", "i", "s", "e">>,
      <<"r", "e", "w", "r", "i", "t", "e">>,
      <<"a", "d", "d">>,
      <<"i", "n", "s", "e", "r", "t">>,
      <<"a", "p", "p", "e", "n", "d">>,
      <<"r", "e", "m", "o", "v", "e">>,
      <<"d", "e", "l", "e", "t", "e">>,
      <<"f", "i", "x">>,
      <<"i", "m", "p", "r", "o", "v", "e">>,
      <<"e", "n", "h", "a", "n", "c", "e">>,
      <<"r", "e", "f", "i", "n", "e">>,
      <<"a", "d", "j", "u", "s", "t">>,
      <<"c", "o", "r", "r", "e", "c", "t">>,
      <<"m", "a", "k", "e">>,
      <<"c", "r", "e", "a", "t", "e">>,
      <<"w", "r", "i", "t", "e">>,
      <<"d", "r", "a", "f", "t">>,
      <<"g", "e", "n", "e", "r", "a", "t", "e">>,
      <<"s", "u", "m", "m", "a", "r", "i", "z", "e">> }

\* `x and len(x.strip()) > 0` as a condition
HasText(x) == Truthy(x) /\ Len(Strip(x)) > 0

\* line 108
AnyIndicator(msg) == \E indicator \in edit_indicators : Find(Lower(msg), indicator) > 0

\* lines 98-125
ShouldUsePipeline(msg, content, selected) ==
    IF ~HasText(selected) /\ HasText(content) THEN AnyIndicator(msg) ELSE FALSE

TestMessages ==
    { <<"E", "d", "i", "t", " ", "t", "h", "e", " ", "i", "n", "t", "r", "o", "d", "u", "c", "t", "i", "o", "n", " ", "s", "e", "c", "t", "i", "o", "n">>,
      <<"E", "d", "i", "t", " ", "t", "h", "i", "s", " ", "t", "e", "x", "t">>,
      <<"W", "h", "a", "t", " ", "i", "s", " ", "t", "h", "i", "s", " ", "d", "o", "c", "u", "m", "e", "n", "t", " ", "a", "b", "o", "u", "t", "?">>,
      <<"F", "I", "X", " ", "t", "h", "e", " ", "t", "y", "p", "o", "s">>,
      <<"p", "l", "e", "a", "s", "e", " ", "S", "u", "m", "m", "a", "r", "i", "z", "e">>,
      <<"W", "h", "o", " ", "w", "r", "o", "t", "e", " ", "i", "t", "?">>,
      <<"h", "e", "l", "l", "o">>,
      \* `add` stands in `address`
      <<"W", "h", "a", "t", " ", "i", "s", " ", "t", "h", "e", " ", "a", "d", "d", "r", "e", "s", "s", "?">>,
      <<>> }

EditorContents == {None, <<>>, SP, <<"D", "o", "c", "u", "m", "e", "n", "t", " ", "c", "o", "n", "t", "e", "n", "t">>}

SelectedTexts == {None, <<>>, SP, <<"S", "e", "l", "e", "c", "t", "e", "d", " ", "t", "e", "x", "t">>}

InitShouldUse ==
    /\ message \in TestMessages
    /\ editor_content \in EditorContents
    /\ selected_text \in SelectedTexts
    /\ result = None
    /\ pc = "s_call"
    /\ jsonnode = <<>>
    /\ pending = <<>>
    /\ existing_ids = {}
    /\ original_nodes = <<>>
    /\ edited_content = <<>>
    /\ paragraphs = <<>>
    /\ path_updates = <<>>
    /\ processed_ids = {}
    /\ origin = <<>>
    /\ selected_nodes_ids = <<>>
    /\ dumpstr = <<>>
    /\ selected_paragraphs = <<>>
    /\ reflattened = <<>>
    /\ service_result = <<>>
    /\ router_events = <<>>

\* lines 80-125: the call returns
ShouldUseReturn ==
    /\ pc = "s_call"
    /\ result' = ShouldUsePipeline(message, editor_content, selected_text)
    /\ pc' = "s_returned"
    /\ UNCHANGED <<jsonnode, pending, existing_ids, original_nodes, edited_content,
                   parse_vars, message, selected_nodes_ids, dumpstr,
                   selected_paragraphs, reflattened, editor_content, selected_text,
                   service_result, router_events>>

NextShouldUse == ShouldUseReturn

SpecShouldUse == InitShouldUse /\ [][NextShouldUse]_vars

(***************************************************************************)
(* Vocabulary of the properties of _parse_edited_content.                  *)
(***************************************************************************)
\* what the loop body read on the i-th consumed line
Parsed(i) == ParseLine(paragraphs[i])

\* the i-th consumed line produced an update
Yielded(i) == \E k \in DOMAIN origin : origin[k] = i

\* the ids of the original flat list
OriginalIds == { original_nodes[i].id : i \in DOMAIN original_nodes }

\* the original text of id x (of the last node carrying x, if x is repeated)
OriginalText(x) ==
    original_nodes[CHOOSE i \in DOMAIN original_nodes :
                     /\ original_nodes[i].id = x
                     /\ \A j \in DOMAIN original_nodes :
                          original_nodes[j].id = x => j <= i].text

\* line i is not marked [NEW], carries the tag of an original id, and no earlier
\* line carries that tag
FirstExistingLine(i) ==
    /\ ~StartsWith(Strip(paragraphs[i]), NewTag)
    /\ Parsed(i).tag \in OriginalIds
    /\ \A j \in 1..(i - 1) : Parsed(j).tag # Parsed(i).tag

\* the line is exactly an ID tag, [ID:x] or [ID: x]
BareTagLine(l, x) == Strip(l) \in {IdTag(x), IdTagStart \o SP \o x \o <<"]">>}

\* the trimmed text that follows the [NEW] marker of a line
TextAfterMarker(l) == Strip(SubSeq(Strip(l), Len(NewTag) + 1, Len(Strip(l))))

\* the line is `[NEW] content` with no ID tag in it
UntaggedNewLine(l) == StartsWith(Strip(l), NewTag) /\ ~IdSearch(l).found

\* the line has neither a [NEW] prefix nor an ID tag
UnaddressedLine(l) == ~StartsWith(Strip(l), NewTag) /\ ~IdSearch(l).found

\* this step consumes the response line l
Consumes(l) == pc = "loop" /\ paragraphs' = Append(paragraphs, l)

(***************************************************************************)
(* C1.  A response line that consists only of an ID tag [ID:x], x being an *)
(* id of the original flat list, yields no update, whatever the original   *)
(* text of x is.                                                           *)
(***************************************************************************)
C1_BareTagYieldsNoUpdate ==
    \A i \in DOMAIN paragraphs : \A x \in OriginalIds :
        BareTagLine(paragraphs[i], x) => ~Yielded(i)

(***************************************************************************)
(* C3.  As claimed: a line not marked [NEW] that is the first line tagged  *)
(* with an original id x, with text c after the tag, yields the update     *)
(* {path: null, content: c, id: x} if and only if c differs from the       *)
(* original text of x.                                                     *)
(***************************************************************************)
C3_UpdateIffTextDiffers ==
    \A i \in DOMAIN paragraphs :
        FirstExistingLine(i) =>
            (Yielded(i) <=> Parsed(i).final # OriginalText(Parsed(i).tag))

(***************************************************************************)
(* C3, amended.  Such a line yields the update {path: null, content: c,    *)
(* id: x} if and only if c differs from the original text of x and c does  *)
(* not look like a stray ID tag (it starts with "[ID:" and is shorter than *)
(* 15 characters); c is the trimmed text left after removing the tag, with *)
(* "(empty)" read as the empty string.  Every update with path null has an *)
(* original id and a content different from that id's original text.       *)
(***************************************************************************)
C3_UpdateIffTextDiffersAndNotStray ==
    /\ \A i \in DOMAIN paragraphs :
         FirstExistingLine(i) =>
            /\ Yielded(i) <=> /\ Parsed(i).final # OriginalText(Parsed(i).tag)
                              /\ ~LooksLikeStrayTag(Parsed(i).final)
            /\ \A k \in DOMAIN origin :
                 origin[k] = i =>
                    path_updates[k] = [path |-> "None", content |-> Parsed(i).final,
                                       id |-> Parsed(i).tag]
    /\ \A k \in DOMAIN path_updates :
         path_updates[k].path = "None" =>
            /\ path_updates[k].id \in OriginalIds
            /\ path_updates[k].content # OriginalText(path_updates[k].id)

\* an unchanged line and a changed line, each the first with its id, were consumed
C3_Witness ==
    /\ \E i \in DOMAIN paragraphs :
         FirstExistingLine(i) /\ Yielded(i) /\ Parsed(i).final = Yo
    /\ \E i \in DOMAIN paragraphs :
         FirstExistingLine(i) /\ ~Yielded(i) /\ Parsed(i).final = Hi

(***************************************************************************)
(* C4.  The returned list contains no two updates with the same id.        *)
(***************************************************************************)
C4_NoTwoUpdatesShareAnId ==
    \A k, m \in DOMAIN path_updates :
        k # m => path_updates[k].id # path_updates[m].id

(***************************************************************************)
(* C6.  As claimed: a line `[NEW] content` without an ID tag yields        *)
(* exactly one update, with path "new" and content equal to the text after *)
(* the marker, and leaves the updates of the other lines as they are.      *)
(***************************************************************************)
C6_NewLineContentIsTextAfterMarker ==
    [][\A l \in LinePool :
         Consumes(l) /\ UntaggedNewLine(l) =>
            /\ Len(path_updates') = Len(path_updates) + 1
            /\ SubSeq(path_updates', 1, Len(path_updates)) = path_updates
            /\ path_updates'[Len(path_updates')].path = "new"
            /\ path_updates'[Len(path_updates')].content = TextAfterMarker(l)
            /\ processed_ids' = processed_ids]_vars

(***************************************************************************)
(* C6, amended.  A line `[NEW] content` without an ID tag yields exactly   *)
(* one update, with path "new" and content equal to the trimmed text after *)
(* the marker, except that the placeholder "(empty)" gives the empty       *)
(* content; the updates already emitted and the set of processed ids, and  *)
(* hence the updates of the other lines, are left as they are.             *)
(***************************************************************************)
C6_NewLineYieldsOneUpdate ==
    [][\A l \in LinePool :
         Consumes(l) /\ UntaggedNewLine(l) =>
            /\ Len(path_updates') = Len(path_updates) + 1
            /\ SubSeq(path_updates', 1, Len(path_updates)) = path_updates
            /\ path_updates'[Len(path_updates')].path = "new"
            /\ path_updates'[Len(path_updates')].content =
                  (IF TextAfterMarker(l) = EmptyMarker THEN <<>> ELSE TextAfterMarker(l))
            /\ processed_ids' = processed_ids]_vars

\* [ID:0000] Hi, unchanged, was followed by [NEW] (empty)
C6_Witness ==
    /\ Len(paragraphs) = 2
    /\ paragraphs[1] = IdTag(Id0) \o SP \o Hi
    /\ paragraphs[2] = NewTag \o SP \o EmptyMarker
    /\ Id0 \in OriginalIds /\ OriginalText(Id0) = Hi
    /\ Len(path_updates) = 1
    /\ path_updates[1].path = "new"

(***************************************************************************)
(* C7.  As claimed: of several lines tagged with the same id, every line   *)
(* after the first yields no update, marked [NEW] or not.                  *)
(***************************************************************************)
C7_LaterLinesYieldNothing ==
    \A i, j \in DOMAIN paragraphs :
        (i < j /\ Parsed(i).tag # <<>> /\ Parsed(i).tag = Parsed(j).tag) => ~Yielded(j)

(***************************************************************************)
(* C7, amended.  Of several lines tagged with the same id, every line that *)
(* comes after one which is marked [NEW] or whose remaining text does not  *)
(* look like a stray ID tag yields no update, marked [NEW] or not; a line  *)
(* dropped by the stray-tag guard does not count as an occurrence.         *)
(***************************************************************************)
C7_LaterLinesYieldNothingAfterAccepted ==
    \A i, j \in DOMAIN paragraphs :
        ( /\ i < j
          /\ Parsed(i).tag # <<>>
          /\ Parsed(i).tag = Parsed(j).tag
          /\ (Parsed(i).is_new \/ ~LooksLikeStrayTag(Parsed(i).final)) )
        => ~Yielded(j)

\* two lines with the same id and different contents: the first gave the update
C7_Witness ==
    /\ Len(paragraphs) = 2
    /\ Parsed(1).tag = Id0 /\ Parsed(2).tag = Id0
    /\ Parsed(1).final # Parsed(2).final
    /\ Parsed(2).final = Yo
    /\ Yielded(1) /\ ~Yielded(2)

(***************************************************************************)
(* C8.  A line not marked [NEW] whose ID tag is not an id of the original  *)
(* flat list yields no update; no update with path null has an id absent   *)
(* from the original list; and such a line does not make the call fail.    *)
(***************************************************************************)
C8_UnknownIdIsIgnored ==
    /\ pc # "raised"
    /\ \A i \in DOMAIN paragraphs :
         ( /\ ~StartsWith(Strip(paragraphs[i]), NewTag)
           /\ Parsed(i).tag # <<>>
           /\ Parsed(i).tag \notin OriginalIds ) => ~Yielded(i)
    /\ \A k \in DOMAIN path_updates :
         path_updates[k].path = "None" => path_updates[k].id \in OriginalIds

\* [ID:0001] Yo was consumed against an original list without 0001, and the
\* call returned
C8_Witness ==
    /\ pc = "done"
    /\ Id1 \notin OriginalIds
    /\ original_nodes # <<>>
    /\ \E i \in DOMAIN paragraphs : paragraphs[i] = IdTag(Id1) \o SP \o Yo

(***************************************************************************)
(* C9.  A line with no [NEW] prefix and no ID tag, in particular           *)
(* [DELETE:x] and [ERROR: Invalid ID x], yields no update, does not mark x *)
(* as processed and leaves the updates of the other lines as they are; and *)
(* no update of the returned list stands for a deletion: every path is     *)
(* "new" or null.                                                          *)
(***************************************************************************)
C9_UnaddressedLineIsDropped ==
    /\ [][\A l \in LinePool :
            Consumes(l) /\ (UnaddressedLine(l) \/ l \in {DeleteTag(Id0), ErrorTag(Id0)}) =>
               /\ path_updates' = path_updates
               /\ origin' = origin
               /\ processed_ids' = processed_ids
               /\ pc' = pc]_vars
    /\ [](\A k \in DOMAIN path_updates :
            /\ path_updates[k].path \in {"new", "None"}
            /\ paragraphs[origin[k]] \notin {DeleteTag(Id0), ErrorTag(Id0)})

\* [DELETE:0000] was consumed, then [ID:0000] Yo changed the node 0000
C9_Witness ==
    /\ Len(paragraphs) = 2
    /\ paragraphs[1] = DeleteTag(Id0)
    /\ paragraphs[2] = IdTag(Id0) \o SP \o Yo
    /\ Id0 \in OriginalIds
    /\ Len(path_updates) = 1
    /\ path_updates[1].id = Id0

(***************************************************************************)
(* C10.  The updates are in the order of the response lines that produced  *)
(* them, whatever the order of their ids in the original document.         *)
(***************************************************************************)
C10_UpdatesInResponseOrder ==
    /\ \A k, m \in DOMAIN path_updates : k < m => origin[k] < origin[m]
    /\ \A k \in DOMAIN path_updates :
         /\ origin[k] \in DOMAIN paragraphs
         /\ path_updates[k].content = Parsed(origin[k]).final
         /\ path_updates[k].path = "None" => path_updates[k].id = Parsed(origin[k]).tag

\* the document holds 0000 before 0001, the response changed 0001 before 0000
C10_Witness ==
    /\ Len(original_nodes) = 2
    /\ original_nodes[1].id = Id0 /\ original_nodes[2].id = Id1
    /\ Len(path_updates) = 2
    /\ path_updates[1].id = Id1 /\ path_updates[2].id = Id0
    /\ path_updates[1].path = "None" /\ path_updates[2].path = "None"

(***************************************************************************)
(* Vocabulary of the properties of trees.                                  *)
(***************************************************************************)
\* the dict nodes of a tree, in document order
RECURSIVE NodesOf(_)
RECURSIVE NodesIn(_, _)
NodesIn(list, i) ==
    IF i > Len(list) THEN <<>> ELSE NodesOf(list[i]) \o NodesIn(list, i + 1)

NodesUnder(node, key) == IF key \in DOMAIN node THEN NodesIn(node[key], 1) ELSE <<>>

NodesOf(node) ==
    <<node>> \o NodesUnder(node, "children") \o NodesUnder(node, "content")
    \o NodesUnder(node, "marks")

\* every node with a type has an id that is not null
AllTypedHaveId(ns) ==
    \A i \in DOMAIN ns : "type" \in DOMAIN ns[i] => ("id" \in DOMAIN ns[i] /\ ns[i].id # None)

\* no two nodes carry the same id
NoSharedId(ns) ==
    \A i, j \in DOMAIN ns :
        (i # j /\ "id" \in DOMAIN ns[i] /\ "id" \in DOMAIN ns[j]) => ns[i].id # ns[j].id

(***************************************************************************)
(* C2.  Round-trip identity: with F the flat list of a tree after the      *)
(* identification pass, the reconciliation of the dump of F against F is   *)
(* the empty list.                                                         *)
(***************************************************************************)
C2_RoundTripIsEmpty == pc = "done" => path_updates = <<>>

(***************************************************************************)
(* C5.  ID uniqueness: after the identification pass, started with an      *)
(* empty existing-id set, every node with a type has a non-null id and no  *)
(* two nodes share an id, also when some nodes carried ids before.         *)
(***************************************************************************)
C5_IdsUniqueAfterAssign ==
    pc # "assign" => AllTypedHaveId(NodesOf(jsonnode)) /\ NoSharedId(NodesOf(jsonnode))

(***************************************************************************)
(* Properties of process_jsonnode.                                         *)
(***************************************************************************)
\* the call has returned after generate_text returned the empty string
ReturnedOnEmptyOutput == pc = "returned" /\ edited_content = <<>>

\* C11: when generate_text returns the empty string, process_jsonnode returns
\* a result that has an `error` key and no `path_updates` key, and
\* _parse_edited_content has not been run (no line split, no update, no id
\* processed)
C11_EmptyGenerationGivesError ==
    ReturnedOnEmptyOutput =>
        /\ "error" \in DOMAIN result
        /\ "path_updates" \notin DOMAIN result
        /\ paragraphs = <<>>
        /\ path_updates = <<>>
        /\ processed_ids = {}

C11_Witness == ReturnedOnEmptyOutput /\ "error" \in DOMAIN result /\ original_nodes # <<>>

\* C12: process_jsonnode never raises to its caller: whatever the tree, the
\* message, the selected ids and the outcome of generate_text, the call ends
\* by returning a result that has `path_updates` or `error`
C12_ProcessNeverRaises ==
    /\ pc # "raised"
    /\ pc = "returned" => ("path_updates" \in DOMAIN result \/ "error" \in DOMAIN result)

\* the paragraphs of the tree that arrive with neither `id` nor `attrs.id`
\* and hold visible text
UnidentifiedLeaves ==
    { i \in DOMAIN jsonnode.content :
        /\ "id" \notin DOMAIN jsonnode.content[i]
        /\ "attrs" \notin DOMAIN jsonnode.content[i]
        /\ IsLeafNode(jsonnode.content[i]) }

\* the flat list has an entry with a usable id for the text of paragraph i,
\* and the dump has its line
AppearsInDump(i) ==
    \E k \in DOMAIN original_nodes :
        /\ original_nodes[k].text = ExtractTextFromContent(jsonnode.content[i].content)
        /\ Truthy(original_nodes[k].id)
        /\ SplitLines(dumpstr)[k] = DumpLine(original_nodes[k])

\* C13: process_jsonnode identifies the nodes before it flattens: once the
\* dump is made, every leaf paragraph that arrived with no id has an id and
\* is a line of `original`, the dump sent to the LLM
C13_UnidentifiedLeafAppearsInDump ==
    pc \notin {"p_flatten", "p_dump"} => \A i \in UnidentifiedLeaves : AppearsInDump(i)

(***************************************************************************)
(* Properties of flatten_nodes_to_list.                                    *)
(***************************************************************************)
\* a is b with some elements left out, the others in the same order
RECURSIVE SubSeqOf(_, _)
SubSeqOf(a, b) ==
    IF a = <<>> THEN TRUE
    ELSE IF b = <<>> THEN FALSE
    ELSE IF Head(a) = Head(b) THEN SubSeqOf(Tail(a), Tail(b))
    ELSE SubSeqOf(a, Tail(b))

\* the ids of the flat list, in its order
FlatIds(flat) == [k \in DOMAIN flat |-> flat[k].id]

\* the ids of the nodes of the tree in depth-first pre-order, `children`
\* before `content`, arrays in their order
PreOrderIds(tree) == [k \in DOMAIN NodesOf(tree) |-> NodeId(NodesOf(tree)[k])]

\* C14: the flat list follows the depth-first pre-order of the tree, arrays
\* in their order and `children` before `content`: its ids are the ids of
\* nodes met in that order, each node giving at most one entry, and no entry
\* has a null id
C14_FlatListInPreOrder ==
    pc # "f_first" =>
        /\ SubSeqOf(FlatIds(original_nodes), PreOrderIds(jsonnode))
        /\ \A k \in DOMAIN original_nodes : original_nodes[k].id # None

C14_Witness ==
    /\ pc = "f_done"
    /\ \E i \in DOMAIN jsonnode.content :
         /\ jsonnode.content[i].type = "section"
         /\ FlatIds(FlattenNodesToList(jsonnode.content[i])) = <<Id3, Id1>>
    /\ jsonnode.children # <<>>
    /\ Len(original_nodes) >= 3

\* the content items that carry text, and their texts
TextBearing(items) == SelectSeq(items, LAMBDA item : "text" \in DOMAIN item)
ItemTexts(items) == [k \in DOMAIN TextBearing(items) |-> TextBearing(items)[k].text]

\* a node with a non-null id whose content has an item with visible text and
\* no item with a content array
LeafByContent(node) ==
    /\ NodeId(node) # None
    /\ "content" \in DOMAIN node
    /\ \E k \in DOMAIN node.content : HasVisibleText(node.content[k])
    /\ \A k \in DOMAIN node.content : "content" \notin DOMAIN node.content[k]

\* C15: a node with a non-null id whose content has an item with non-blank
\* text and no item with nested content gives exactly one entry, with the
\* space-joined text of its text-bearing items, and its items give none: a
\* document whose content is made of such nodes flattens to one entry per
\* node, in order
C15_ContentLeafIsOneEntry ==
    ( /\ pc # "f_first"
      /\ jsonnode.children = <<>>
      /\ jsonnode.content # <<>>
      /\ \A i \in DOMAIN jsonnode.content : LeafByContent(jsonnode.content[i]) )
    => original_nodes =
         [i \in DOMAIN jsonnode.content |->
            [id |-> NodeId(jsonnode.content[i]),
             text |-> JoinSpace(ItemTexts(jsonnode.content[i].content))]]

Occurs(t, s) == \E k \in 0..(Len(s) - Len(t)) : SubSeq(s, k + 1, k + Len(t)) = t

\* C17: in a tree whose nodes with a type all carry an id, every non-blank
\* `text` held by a node occurs in the text of some entry of the flat list
C17_NoVisibleTextDropped ==
    (pc # "f_first" /\ AllTypedHaveId(NodesOf(jsonnode))) =>
        \A n \in DOMAIN NodesOf(jsonnode) :
            HasVisibleText(NodesOf(jsonnode)[n]) =>
                \E k \in DOMAIN original_nodes :
                    Occurs(NodesOf(jsonnode)[n].text, original_nodes[k].text)

(***************************************************************************)
(* Properties of add_ids_to_nodes as a change of the tree.                 *)
(***************************************************************************)
\* a node with a type and no truthy id
LacksId(node) ==
    "type" \in DOMAIN node /\ ("id" \notin DOMAIN node \/ node.id \in {None, <<>>})

\* new is old with nothing changed but `id` fields set on nodes that lack one
RECURSIVE SameButNewIds(_, _)
SameListButNewIds(old, new) ==
    Len(new) = Len(old) /\ \A i \in DOMAIN old : SameButNewIds(old[i], new[i])

SameValueButNewIds(key, old, new) ==
    IF key \in {"children", "content", "marks"} THEN SameListButNewIds(old, new)
    ELSE IF key = "attrs" THEN SameButNewIds(old, new)
    ELSE new = old

SameButNewIds(old, new) ==
    /\ DOMAIN old \subseteq DOMAIN new
    /\ DOMAIN new \subseteq DOMAIN old \cup {"id"}
    /\ "id" \in DOMAIN new =>
         \/ LacksId(old)
         \/ ("id" \in DOMAIN old /\ new.id = old.id)
    /\ \A key \in DOMAIN old \ {"id"} : SameValueButNewIds(key, old[key], new[key])

\* every node with a type has a truthy id
FullyIdentified(tree) ==
    \A k \in DOMAIN NodesOf(tree) : ~LacksId(NodesOf(tree)[k])

\* C18: a step of add_ids_to_nodes changes no truthy id and nothing else in
\* the tree than the `id` of nodes with a type that lack one; on a tree that
\* is fully identified it changes nothing
C18_AssignOnlyAddsMissingIds ==
    [][ pc = "assign" =>
          /\ SameButNewIds(jsonnode, jsonnode')
          /\ FullyIdentified(jsonnode) => jsonnode' = jsonnode ]_vars

\* the pass has ended on a tree in which some node came with its id and kept
\* it next to nodes that were given one
C18_Witness ==
    /\ pc = "flatten"
    /\ existing_ids # {}
    /\ \E i \in DOMAIN jsonnode.content :
         /\ jsonnode.content[i].id = Id0
         /\ Id0 \notin existing_ids

\* the pass has ended on a tree that came fully identified
C18_WitnessIdentified ==
    pc = "flatten" /\ existing_ids = {} /\ jsonnode.content # <<>>

(***************************************************************************)
(* Properties of the empty marker.                                         *)
(***************************************************************************)
\* the line is [ID:x] (empty) or [ID: x] (empty)
EmptyMarkerLine(l, x) ==
    Strip(l) \in { IdTag(x) \o SP \o EmptyMarker,
                   IdTagStart \o SP \o x \o <<"]">> \o SP \o EmptyMarker }

\* x is an original id and the original text of x is the empty string
OriginallyEmpty(x) ==
    /\ x \in OriginalIds
    /\ \A k \in DOMAIN original_nodes :
         original_nodes[k].id = x => original_nodes[k].text = <<>>

\* C19: when the original text of id x is the empty string, a response line
\* `[ID:x] (empty)` yields no update: the placeholder is read as the empty
\* string before the comparison with the original text
C19_EmptyMarkerYieldsNoUpdate ==
    \A i \in DOMAIN paragraphs : \A x \in DocIds :
        (EmptyMarkerLine(paragraphs[i], x) /\ OriginallyEmpty(x)) => ~Yielded(i)

C19_Witness ==
    /\ pc = "done"
    /\ \E i \in DOMAIN paragraphs :
         /\ EmptyMarkerLine(paragraphs[i], Id0)
         /\ OriginallyEmpty(Id0)
         /\ \A j \in 1..(i - 1) : Parsed(j).tag # Id0
         /\ ~Yielded(i)

\* C20: dump_flattened_nodes writes a flat node whose text is the empty
\* string as the line `[ID:<id>] (empty)`
C20_EmptyTextIsDumpedAsMarker ==
    pc # "dump" =>
        \A k \in DOMAIN original_nodes :
            original_nodes[k].text = <<>> =>
                SplitLines(edited_content)[k]
                    = IdTag(original_nodes[k].id) \o SP \o EmptyMarker

(***************************************************************************)
(* Properties of process_jsonnode towards its caller.                      *)
(***************************************************************************)
\* C21: process_jsonnode leaves the tree it was given as it was: no step of
\* the call, whether it ends with data, with an error or by raising, changes
\* the tree (no id added, no text or structure changed)
C21_TreeIsNotChanged == [][jsonnode' = jsonnode]_vars

\* the call has returned data for a tree that arrived without id on its
\* root, and the root still has none
C21_Witness ==
    /\ pc = "returned"
    /\ "path_updates" \in DOMAIN result
    /\ jsonnode.content # <<>>
    /\ NeedsId(jsonnode)

\* the call of generate_text was cancelled: the cancellation reached the
\* caller as an exception or as the error of a result
Cancelled(res) ==
    \/ "raised" \in DOMAIN res /\ res.raised = "CancelledError"
    \/ "error" \in DOMAIN res /\ res.error = "CancelledError"

\* C22: when the call of generate_text is cancelled or timed out from
\* outside, process_jsonnode returns a result with an `error` instead of
\* letting the cancellation through
C22_CancellationGivesErrorResult ==
    Cancelled(result) => (pc # "raised" /\ "error" \in DOMAIN result)

\* the pipeline call ended with data: `path_updates` and no `error`
EditSucceeded == "path_updates" \in DOMAIN result /\ "error" \notin DOMAIN result

\* C30: the service reports success=True only when the result of the
\* pipeline carries `path_updates` and no `error`, so that the router sends
\* no replace-text action for an edit that failed
C30_SuccessOnlyForData ==
    /\ ("success" \in DOMAIN service_result /\ service_result.success) => EditSucceeded
    /\ \A k \in DOMAIN router_events :
         router_events[k].type = "action" => EditSucceeded

(***************************************************************************)
(* C28.  When generate_text returns the empty string, the result of        *)
(* process_jsonnode has exactly the keys `error` and `message`; its error  *)
(* is the one of lines 602-605 and not the text of an exception raised on  *)
(* the way, and it has no `original` and no `edited`.                      *)
(***************************************************************************)
C28_EmptyOutputResultIsDedicated ==
    ReturnedOnEmptyOutput =>
        /\ DOMAIN result = {"error", "message"}
        /\ result.error # UnboundLogging
        /\ result.message = message

(***************************************************************************)
(* Properties of two interleaved calls of process_jsonnode.                *)
(***************************************************************************)
\* what a call returns when it runs alone on its arguments and its response
\* (None: generate_text raised)
AloneResult(tree, msg, response) ==
    IF response = None
    THEN ErrorResult(DumpFlattenedNodes(FlattenNodesToList(tree)),
                     "generate_text failed", msg)
    ELSE ResumeResult(FlattenNodesToList(tree),
                      DumpFlattenedNodes(FlattenNodesToList(tree)), msg, response)

\* C23: two calls of process_jsonnode on the shared pipeline that interleave
\* at the await of generate_text do not influence each other: what a call
\* returns is what it returns alone on its own arguments and its own
\* response, and what it holds while suspended is made from its own tree
C23_CallsDoNotInterfere ==
    \A c \in Calls :
        /\ pc[c] = "returned" =>
             result[c] = AloneResult(jsonnode[c], message[c], edited_content[c])
        /\ pc[c] = "awaiting" =>
             original_nodes[c] = FlattenNodesToList(jsonnode[c])

\* call 1 has returned updates while call 2, on another tree, is suspended at
\* its await
C23_Witness ==
    /\ pc[1] = "returned"
    /\ pc[2] = "awaiting"
    /\ jsonnode[1] # jsonnode[2]
    /\ "path_updates" \in DOMAIN result[1]
    /\ result[1].path_updates # <<>>

(***************************************************************************)
(* Properties of the id generator, of the emission of flatten and of the   *)
(* updates of [NEW] lines.                                                 *)
(***************************************************************************)
\* C25: assign_ids always terminates: whenever the generator is called for
\* a type-bearing node that lacks an id, an unused id is left for the redraw
\* loop to end on, also when more nodes need an id than ids are free
C25_RedrawLoopEnds ==
    (InAssign /\ NeedsId(Visited)) => FreeIds(existing_ids) # {}

\* C26: no entry emitted by flatten has an empty or whitespace-only text,
\* also for a node with a blank `text` field and a `content` array of text
\* items
C26_NoBlankTextEmitted ==
    pc # "f_first" =>
        \A k \in DOMAIN original_nodes : Strip(original_nodes[k].text) # <<>>

\* the node has no usable node-level id: the key is absent or its value null
NoNodeLevelId(node) == "id" \notin DOMAIN node \/ node.id = None

\* the node carries a non-null id under attrs
HasAttrsId(node) ==
    /\ "attrs" \in DOMAIN node
    /\ "id" \in DOMAIN node.attrs
    /\ node.attrs.id # None

\* the blocks flatten visits as nodes of their own
VisitedBlocks ==
    IF IsLeafNode(jsonnode) THEN {}
    ELSE { jsonnode.children[k] : k \in DOMAIN jsonnode.children }
         \cup { jsonnode.content[k] : k \in DOMAIN jsonnode.content }

\* C27: flatten falls back to attrs.id whenever the node has no usable
\* node-level id (key absent or value null): a leaf with a non-null attrs.id
\* is emitted under that id
C27_LeafEmittedUnderAttrsId ==
    pc # "f_first" =>
        \A node \in VisitedBlocks :
            (IsLeafNode(node) /\ NoNodeLevelId(node) /\ HasAttrsId(node))
                => node.attrs.id \in OriginalIds

\* C29: no update with path "new" carries an id of the original flat list,
\* be the id synthesized for an untagged [NEW] line or taken from the tag
\* embedded in a [NEW] line
C29_NewUpdateNeverHasOriginalId ==
    \A k \in DOMAIN path_updates :
        path_updates[k].path = "new" => path_updates[k].id \notin OriginalIds

(***************************************************************************)
(* Properties of should_use_pipeline.                                      *)
(***************************************************************************)
\* None, empty or whitespace only
Blank(x) == x = None \/ \A k \in DOMAIN x : x[k] \in Whitespace

SameLetter(a, b) == a = b \/ LowerChar(a) = b \/ a = LowerChar(b)

\* the indicator stands in msg at position i, whatever the case of the letters
StandsAt(msg, indicator, i) ==
    /\ i + Len(indicator) - 1 <= Len(msg)
    /\ \A j \in DOMAIN indicator : SameLetter(msg[i + j - 1], indicator[j])

\* the message shows editing intent: it holds one of the edit indicators
ShowsEditingIntent(msg) ==
    \E indicator \in edit_indicators : \E i \in DOMAIN msg : StandsAt(msg, indicator, i)

IsQuestion(msg) == msg # <<>> /\ msg[Len(msg)] = "?"

====
